---- MODULE Spec2Model ----
(***************************************************************************)
(* Model of bird2-autotype (src/main.py): the return-type inferencer       *)
(* (BirdTypeInferencer) and the config processor (BirdConfigProcessor).    *)
(*                                                                         *)
(* A Python str is a sequence of one-character strings; a list of lines is *)
(* a sequence of such sequences.  Optional[str] is a sequence of length 0  *)
(* (None) or 1 (the string).                                               *)
(*                                                                         *)
(* A local variable of the code is bound by a quantifier over a singleton  *)
(* set ("\E x \in {e} : ..." or "CHOOSE r \in {f(x) : x \in {e}} : TRUE"),    *)
(* which evaluates its value e once.                                       *)
(***************************************************************************)
EXTENDS Integers, Sequences, FiniteSets, TLC

VARIABLES
    pc,                 \* position of the modelled call
    n_appended,         \* number of pieces the input under construction is made of
    content,            \* process_content: the document text
    lines,              \* process_content: content.split("\n")
    idx,                \* process_content: index of the next line of the for loop
    in_function,        \* process_content: in_function
    brace_count,        \* process_content: brace_count
    function_lines,     \* process_content: function_lines
    processed_lines,    \* process_content: processed_lines
    run,                \* which run of the tool over the document (1, 2)
    first_output,       \* the text the first run returned
    output,             \* the text the last finished run returned
    value,              \* one return expression handed to the classifiers
    verdict,            \* the seven classifier results for value
    return_values,      \* infer_return_type: its argument
    inferred_type,      \* infer_return_type: its result
    function_body,      \* extract_return_values: its argument
    extracted,          \* extract_return_values: its result
    block_lines,        \* _process_function_lines / _add_return_type: lines
    block_type,         \* _add_return_type: inferred_type
    block_result        \* the list of lines returned for block_lines

docVars == <<content, lines, idx, in_function, brace_count, function_lines,
             processed_lines, run, first_output, output>>
clsVars == <<value, verdict>>
infVars == <<return_values, inferred_type>>
extVars == <<function_body, extracted>>
blkVars == <<block_lines, block_type, block_result>>
vars == <<pc, n_appended, docVars, clsVars, infVars, extVars, blkVars>>

(***************************************************************************)
(* Python str operations                                                   *)
(***************************************************************************)

\* str.isspace() characters (those of ASCII that TLA+ can write)
Whitespace == {" ", "\t", "\n", "\r", "\f"}
Digits == {"0", "1", "2", "3", "4", "5", "6", "7", "8", "9"}
HexLetters == {"a", "b", "c", "d", "e", "f", "A", "B", "C", "D", "E", "F"}
Letters == {"a", "b", "c", "d", "e", "f", "g", "h", "i", "j", "k", "l", "m",
            "n", "o", "p", "q", "r", "s", "t", "u", "v", "w", "x", "y", "z",
            "A", "B", "C", "D", "E", "F", "G", "H", "I", "J", "K", "L", "M",
            "N", "O", "P", "Q", "R", "S", "T", "U", "V", "W", "X", "Y", "Z"}
WordChars == Letters \cup Digits \cup {"_"}

Min(a, b) == IF a <= b THEN a ELSE b
Max(a, b) == IF a >= b THEN a ELSE b
Maximum(S) == CHOOSE x \in S : \A y \in S : x >= y
Minimum(S) == CHOOSE x \in S : \A y \in S : x <= y

\* s[a..b] (1-based, inclusive), empty when b < a
Slice(s, a, b) == IF b < a THEN <<>> ELSE SubSeq(s, a, b)

\* sub occurs in s starting at index i
OccursAt(s, sub, i) ==
    /\ i >= 1
    /\ i + Len(sub) - 1 <= Len(s)
    /\ \A k \in 1..Len(sub) : s[i + k - 1] = sub[k]

\* str.find(sub) + 1: index of the first occurrence, 0 when there is none
Find(s, sub) ==
    LET hits == {i \in 1..(Len(s) - Len(sub) + 1) : OccursAt(s, sub, i)}
    IN  IF hits = {} THEN 0 ELSE CHOOSE i \in hits : \A j \in hits : i <= j

\* sub in s
Contains(s, sub) == Find(s, sub) # 0

\* str.startswith(sub)
StartsWith(s, sub) == OccursAt(s, sub, 1)

\* str.count(c) for a one-character c
Count(s, c) == Cardinality({i \in 1..Len(s) : s[i] = c})

\* str.lstrip(), str.rstrip(), str.strip()
LStrip(s) ==
    LET keep == {i \in 1..Len(s) : s[i] \notin Whitespace}
    IN  IF keep = {} THEN <<>>
        ELSE Slice(s, CHOOSE i \in keep : \A j \in keep : i <= j, Len(s))
RStrip(s) ==
    LET keep == {i \in 1..Len(s) : s[i] \notin Whitespace}
    IN  IF keep = {} THEN <<>>
        ELSE Slice(s, 1, CHOOSE i \in keep : \A j \in keep : i >= j)
Strip(s) == CHOOSE r \in {LStrip(t) : t \in {RStrip(s)}} : TRUE

\* str.split(sep): the parts between the occurrences of sep, left to right
RECURSIVE SplitOn(_, _)
SplitOn(s, sep) ==
    CHOOSE r \in {IF i = 0 THEN <<s>>
                  ELSE <<Slice(s, 1, i - 1)>> \o SplitOn(Slice(s, i + Len(sep), Len(s)), sep) :
                  i \in {Find(s, sep)}} : TRUE

\* str.split(sep, 1)
SplitOnce(s, sep) ==
    CHOOSE r \in {IF i = 0 THEN <<s>>
                  ELSE <<Slice(s, 1, i - 1), Slice(s, i + Len(sep), Len(s))>> :
                  i \in {Find(s, sep)}} : TRUE

\* str.split(): the maximal runs of non-whitespace characters
RECURSIVE SplitWhitespace(_)
SplitWhitespace(s) ==
    CHOOSE r \in {IF t = <<>> THEN <<>>
                  ELSE LET ws == {i \in 1..Len(t) : t[i] \in Whitespace}
                           e == IF ws = {} THEN Len(t) + 1
                                ELSE CHOOSE i \in ws : \A j \in ws : i <= j
                       IN  <<Slice(t, 1, e - 1)>> \o SplitWhitespace(Slice(t, e, Len(t))) :
                  t \in {LStrip(s)}} : TRUE

\* sep.join(parts)
RECURSIVE Join(_, _)
Join(sep, parts) ==
    IF parts = <<>> THEN <<>>
    ELSE IF Len(parts) = 1 THEN parts[1]
    ELSE parts[1] \o sep \o Join(sep, Tail(parts))

Newline == <<"\n">>
Space == <<" ">>

(***************************************************************************)
(* Regular expressions (module re): a pattern is a sequence of items, each *)
(* a character class with a quantifier.  A class is [neg, set]: the        *)
(* characters of set, or with neg all the others.  Matching keeps the set  *)
(* of positions (characters consumed) every backtracking choice can reach. *)
(***************************************************************************)

Cls(set) == [neg |-> FALSE, set |-> set]
NotCls(set) == [neg |-> TRUE, set |-> set]
One(c) == [c |-> c, q |-> "1"]
Opt(c) == [c |-> c, q |-> "?"]
Star(c) == [c |-> c, q |-> "*"]
Plus(c) == [c |-> c, q |-> "+"]
Lit(ch) == One(Cls({ch}))
\* the items of a literal string
LitSeq(str) == [i \in 1..Len(str) |-> Lit(str[i])]

InClass(ch, c) == (ch \in c.set) # c.neg

\* one more character of class c from the positions P
Advance(s, P, c) == {p + 1 : p \in {x \in P : x < Len(s) /\ InClass(s[x + 1], c)}}
\* zero or more characters of class c from the positions P
Reach(s, P, c) ==
    {e \in 0..Len(s) : \E p \in P : p <= e /\ \A k \in (p + 1)..e : InClass(s[k], c)}

Step(s, P, it) ==
    CASE it.q = "1" -> Advance(s, P, it.c)
      [] it.q = "?" -> P \cup Advance(s, P, it.c)
      [] it.q = "*" -> Reach(s, P, it.c)
      [] it.q = "+" -> Reach(s, Advance(s, P, it.c), it.c)

RECURSIVE RunPattern(_, _, _, _)
RunPattern(s, P, pat, i) ==
    IF i > Len(pat) THEN P ELSE RunPattern(s, Step(s, P, pat[i]), pat, i + 1)

\* the end positions of the matches of pat that start at position p (0-based)
MatchEnds(s, pat, p) == RunPattern(s, {p}, pat, 1)

\* "$" without re.MULTILINE: the end of the string, or just before a final newline
AtDollar(s, p) == p = Len(s) \/ (p = Len(s) - 1 /\ s[Len(s)] = "\n")

\* re.match(r"^pat$", s) is not None
MatchesWhole(s, pat) == \E e \in MatchEnds(s, pat, 0) : AtDollar(s, e)
\* re.match(r"^pat", s) is not None
MatchesPrefix(s, pat) == MatchEnds(s, pat, 0) # {}
\* re.search(r"pat", s) is not None
Searches(s, pat) == \E p \in 0..Len(s) : MatchEnds(s, pat, p) # {}

(***************************************************************************)
(* Module ipaddress, as far as ip_address() and ip_network(strict=False)   *)
(* decide whether a string is valid                                        *)
(***************************************************************************)

DigitSeq == <<"0", "1", "2", "3", "4", "5", "6", "7", "8", "9">>
DigitValue(ch) == (CHOOSE i \in 1..10 : DigitSeq[i] = ch) - 1

AllIn(s, set) == \A i \in 1..Len(s) : s[i] \in set

\* int(s) for a string of decimal digits, cut off above cap
RECURSIVE DecValue(_, _, _)
DecValue(s, acc, cap) ==
    IF s = <<>> THEN acc
    ELSE DecValue(Tail(s), Min(acc * 10 + DigitValue(Head(s)), cap + 1), cap)

\* IPv4Address._parse_octet succeeds
ParseOctetOk(o) ==
    /\ o # <<>>
    /\ AllIn(o, Digits)
    /\ Len(o) <= 3
    /\ ~(o # <<"0">> /\ o[1] = "0")
    /\ DecValue(o, 0, 255) <= 255

\* IPv4Address._ip_int_from_string succeeds
IPv4IntFromStringOk(s) ==
    /\ s # <<>>
    /\ \E octets \in {SplitOn(s, <<".">>)} :
          Len(octets) = 4 /\ \A i \in 1..4 : ParseOctetOk(octets[i])

\* IPv4Address(s) succeeds
IsIPv4Address(s) == ~Contains(s, <<"/">>) /\ IPv4IntFromStringOk(s)

\* IPv6Address._parse_hextet succeeds
ParseHextetOk(h) == AllIn(h, Digits \cup HexLetters) /\ Len(h) <= 4 /\ h # <<>>

\* the hextets of an IPv6 address are valid, with at most one "::"
IPv6PartsOk(parts) ==
    LET n == Len(parts)
        skips == {i \in 2..(n - 1) : parts[i] = <<>>}
    IN  /\ n <= 9
        /\ Cardinality(skips) <= 1
        /\ IF skips # {}
           THEN \E skip_index \in skips :
                \E parts_hi \in {IF parts[1] = <<>> THEN skip_index - 2 ELSE skip_index - 1},
                   parts_lo \in {IF parts[n] = <<>> THEN n - skip_index - 1
                                 ELSE n - skip_index} :
                    /\ parts[1] = <<>> => parts_hi = 0
                    /\ parts[n] = <<>> => parts_lo = 0
                    /\ 8 - (parts_hi + parts_lo) >= 1
                    /\ \A i \in 1..parts_hi : ParseHextetOk(parts[i])
                    /\ \A i \in (n - parts_lo + 1)..n : ParseHextetOk(parts[i])
           ELSE /\ n = 8
                /\ \A i \in 1..n : ParseHextetOk(parts[i])

\* IPv6Address._ip_int_from_string succeeds; an IPv4 tail stands for two hextets
IPv6IntFromStringOk(s) ==
    /\ s # <<>>
    /\ \E split \in {SplitOn(s, <<":">>)} :
          /\ Len(split) >= 3
          /\ \E last \in {split[Len(split)]} :
                IF Contains(last, <<".">>)
                THEN /\ IsIPv4Address(last)
                     /\ \E parts \in {Slice(split, 1, Len(split) - 1)
                                      \o << <<"0">>, <<"0">> >>} : IPv6PartsOk(parts)
                ELSE IPv6PartsOk(split)

\* IPv6Address._split_scope_id succeeds; the address part
ScopeIdOk(s) ==
    \E i \in {Find(s, <<"%">>)} :
        i # 0 => (i < Len(s) /\ ~Contains(Slice(s, i + 1, Len(s)), <<"%">>))
WithoutScopeId(s) ==
    CHOOSE r \in {IF i = 0 THEN s ELSE Slice(s, 1, i - 1) : i \in {Find(s, <<"%">>)}} : TRUE

\* IPv6Address(s) succeeds
IsIPv6Address(s) ==
    /\ ~Contains(s, <<"/">>)
    /\ ScopeIdOk(s)
    /\ \E addr \in {WithoutScopeId(s)} : IPv6IntFromStringOk(addr)

\* ipaddress.ip_address(s) does not raise ValueError
IpAddressOk(s) == IsIPv4Address(s) \/ IsIPv6Address(s)

\* _prefix_from_prefix_string succeeds for an address family of max bits
PrefixStringOk(m, max) == m # <<>> /\ AllIn(m, Digits) /\ DecValue(m, 0, max) <= max

\* the octets are ones followed by zeroes (a netmask), bit by bit
NetmaskEdge == {0, 128, 192, 224, 240, 248, 252, 254, 255}
IsNetmaskOctets(o) ==
    \E i \in 1..4 : /\ \A j \in 1..(i - 1) : o[j] = 255
                    /\ o[i] \in NetmaskEdge
                    /\ \A j \in (i + 1)..4 : o[j] = 0

\* IPv4 _prefix_from_ip_string succeeds: a dotted netmask or hostmask
PrefixFromIpStringOk(m) ==
    /\ IPv4IntFromStringOk(m)
    /\ \E parts \in {SplitOn(m, <<".">>)} :
       \E o \in {[i \in 1..4 |-> DecValue(parts[i], 0, 255)]} :
          IsNetmaskOctets(o) \/ IsNetmaskOctets([i \in 1..4 |-> 255 - o[i]])

\* IPv4Network(s, strict=False) succeeds
IsIPv4Network(s) ==
    \E addr \in {SplitOn(s, <<"/">>)} :
        /\ Len(addr) <= 2
        /\ \E a \in {addr[1]} : IsIPv4Address(a)
        /\ Len(addr) = 2 =>
              \E m \in {addr[2]} : PrefixStringOk(m, 32) \/ PrefixFromIpStringOk(m)

\* IPv6Network(s, strict=False) succeeds
IsIPv6Network(s) ==
    \E addr \in {SplitOn(s, <<"/">>)} :
        /\ Len(addr) <= 2
        /\ \E a \in {addr[1]} : IsIPv6Address(a)
        /\ Len(addr) = 2 => \E m \in {addr[2]} : PrefixStringOk(m, 128)

\* ipaddress.ip_network(s, strict=False) does not raise ValueError
IpNetworkOk(s) == IsIPv4Network(s) \/ IsIPv6Network(s)

(***************************************************************************)
(* BirdTypeInferencer                                                      *)
(***************************************************************************)

DotMaskParen == <<".", "m", "a", "s", "k", "(">>
Net == <<"n", "e", "t">>
NetDot == <<"n", "e", "t", ".">>

\* r"^\s*-?\d+\s*$"
IntPattern == <<Star(Cls(Whitespace)), Opt(Cls({"-"})), Plus(Cls(Digits)),
                Star(Cls(Whitespace))>>
\* r"^\s*\([^,)]+,\s*[^,)]+\)\s*$"
PairPattern == <<Star(Cls(Whitespace)), Lit("("), Plus(NotCls({",", ")"})), Lit(","),
                 Star(Cls(Whitespace)), Plus(NotCls({",", ")"})), Lit(")"),
                 Star(Cls(Whitespace))>>
\* r"^\s*\{[^}]*\}\s*$"
SetPattern == <<Star(Cls(Whitespace)), Lit("{"), Star(NotCls({"}"})), Lit("}"),
                Star(Cls(Whitespace))>>
\* r"\.mask\(\d+\)"
MaskCallPattern == LitSeq(DotMaskParen) \o <<Plus(Cls(Digits)), Lit(")")>>
\* r"^(net(\.mask\(\d+\))?|.*\.mask\(\d+\))$", one pattern per alternative
PrefixPatterns == {LitSeq(Net),
                   LitSeq(Net) \o MaskCallPattern,
                   <<Star(NotCls({"\n"}))>> \o MaskCallPattern}
\* r'["\'][^"\'\n]*["\']'
QuotedPattern == <<One(Cls({"\"", "'"})), Star(NotCls({"\"", "'", "\n"})),
                   One(Cls({"\"", "'"}))>>

\* _is_ip_address (main.py 108-127)
IsIpAddress(v) ==
    IF Contains(v, <<"/">>) THEN FALSE
    ELSE IF Contains(v, DotMaskParen)
         THEN \E base_ip \in {SplitOn(v, DotMaskParen)[1]} : IpAddressOk(base_ip)
         ELSE IpAddressOk(v)

\* _is_prefix_type without the test of the part before ".mask("
IsPrefixTypeByPattern(v) ==
    IF Contains(v, <<"/">>) /\ IpNetworkOk(v) THEN TRUE
    ELSE \E pat \in PrefixPatterns : MatchesWhole(v, pat)

\* _is_prefix_type (main.py 129-149)
IsPrefixType(v) ==
    IF Contains(v, <<"/">>) /\ IpNetworkOk(v) THEN TRUE
    ELSE IF Contains(v, DotMaskParen)
         THEN \E base_part \in {SplitOn(v, DotMaskParen)[1]} :
                 IF IpAddressOk(base_part) THEN FALSE
                 ELSE base_part = Net \/ StartsWith(base_part, NetDot)
         ELSE \E pat \in PrefixPatterns : MatchesWhole(v, pat)

\* _is_string_type (main.py 151-155)
IsStringType(v) ==
    IF Searches(v, QuotedPattern) THEN TRUE
    ELSE Contains(v, <<",">>) /\ ~(StartsWith(v, <<"(">>) \/ StartsWith(v, <<"{">>))

\* _is_bool_type (main.py 157-162)
BoolOperators == {<<"=">>, <<"!", "=">>, <<"<">>, <<">">>, <<"<", "=">>, <<">", "=">>,
                  <<"&", "&">>, <<"|", "|">>, <<"!">>, <<"~">>, <<"!", "~">>}
IsBoolType(v) ==
    IF v \in {<<"t", "r", "u", "e">>, <<"f", "a", "l", "s", "e">>} THEN TRUE
    ELSE \E op \in BoolOperators : Contains(v, op)

\* The type names, in the order of TYPE_PATTERNS
TypeNames == <<"int", "pair", "ip", "prefix", "string", "set", "bool">>

\* TYPE_PATTERNS[k][1](v) is truthy (main.py 98-106)
Checker(type_name, v) ==
    \E s \in {Strip(v)} :
        CASE type_name = "int" -> MatchesWhole(s, IntPattern)
          [] type_name = "pair" -> MatchesWhole(s, PairPattern)
          [] type_name = "ip" -> IsIpAddress(s)
          [] type_name = "prefix" -> IsPrefixType(s)
          [] type_name = "string" -> IsStringType(s)
          [] type_name = "set" -> MatchesWhole(s, SetPattern)
          [] type_name = "bool" -> IsBoolType(s)

\* The text of a declared type
TypeText(type_name) ==
    CASE type_name = "int" -> <<"i", "n", "t">>
      [] type_name = "pair" -> <<"p", "a", "i", "r", " ", "(", "i", "n", "t", ",", " ", "i", "n", "t", ")">>
      [] type_name = "ip" -> <<"i", "p">>
      [] type_name = "prefix" -> <<"p", "r", "e", "f", "i", "x">>
      [] type_name = "string" -> <<"s", "t", "r", "i", "n", "g">>
      [] type_name = "set" -> <<"s", "e", "t">>
      [] type_name = "bool" -> <<"b", "o", "o", "l">>

None == <<>>
Some(x) == <<x>>

\* any() in the place of all()
AnyMatch(type_name, vals) == \E i \in 1..Len(vals) : Checker(type_name, vals[i])

\* only the first value is checked
FirstMatches(type_name, vals) == vals # <<>> => Checker(type_name, vals[1])

\* all(checker(val) for val in return_values)
AllMatch(type_name, vals) == \A i \in 1..Len(vals) : Checker(type_name, vals[i])

\* infer_return_type without the test for an empty list
InferReturnTypeNoVoid(vals) ==
    CHOOSE r \in {IF hits = {} THEN Some(TypeText("bool"))
                  ELSE Some(TypeText(TypeNames[Minimum(hits)])) :
                  hits \in {{k \in 1..Len(TypeNames) : AllMatch(TypeNames[k], vals)}}} :
        TRUE

\* infer_return_type (main.py 164-172)
InferReturnType(vals) ==
    IF vals = <<>> THEN None
    ELSE CHOOSE r \in {IF hits = {} THEN Some(TypeText("bool"))
                       ELSE Some(TypeText(TypeNames[Minimum(hits)])) :
                       hits \in {{k \in 1..Len(TypeNames) : AllMatch(TypeNames[k], vals)}}} :
             TRUE

(***************************************************************************)
(* BirdConfigProcessor                                                     *)
(***************************************************************************)

KwFunction == <<"f", "u", "n", "c", "t", "i", "o", "n">>
KwReturn == <<"r", "e", "t", "u", "r", "n">>
Arrow == <<" ", "-", ">", " ">>

\* FUNCTION_START = re.compile(r"^\s*function\s+\w+") (main.py 198)
FunctionStartPattern == <<Star(Cls(Whitespace))>> \o LitSeq(KwFunction)
                        \o <<Plus(Cls(Whitespace)), Plus(Cls(WordChars))>>
\* FUNCTION_START.match(line)
FunctionStart(line) == MatchesPrefix(line, FunctionStartPattern)

\* RETURN_PATTERN = re.compile(r"return\s+([^;]+);", re.MULTILINE) (main.py 199),
\* in three parts: up to the group, the group, after the group
ReturnLead == LitSeq(KwReturn) \o <<Plus(Cls(Whitespace))>>
ReturnGroup == <<Plus(NotCls({";"}))>>
ReturnTrail == <<Lit(";")>>

\* the positions where the group of a match starting at p can start, and for a
\* group start a the positions where the group can end with the rest matching
GroupStarts(s, p) ==
    {a \in MatchEnds(s, ReturnLead, p) :
        \E b \in MatchEnds(s, ReturnGroup, a) : MatchEnds(s, ReturnTrail, b) # {}}
GroupEnds(s, a) ==
    {b \in MatchEnds(s, ReturnGroup, a) : MatchEnds(s, ReturnTrail, b) # {}}

\* RETURN_PATTERN.findall(s) from position pos on: the groups of the leftmost
\* matches, none overlapping; both quantifiers are greedy
RECURSIVE FindAllReturns(_, _)
FindAllReturns(s, pos) ==
    CHOOSE r \in {IF starts = {} THEN <<>>
                  ELSE CHOOSE m \in {<<Slice(s, a + 1, b)>> \o FindAllReturns(s, b + 1) :
                                     a \in {Maximum(GroupStarts(s, Minimum(starts)))},
                                     b \in {Maximum(GroupEnds(s,
                                              Maximum(GroupStarts(s, Minimum(starts)))))}} :
                           TRUE :
                  starts \in {{p \in pos..Len(s) : GroupStarts(s, p) # {}}}} : TRUE

\* match.strip() alone: inner whitespace is kept
NormalizeMatchStripOnly(match) == Strip(match)

\* " ".join(match.strip().split())
NormalizeMatch(match) ==
    CHOOSE r \in {Join(Space, words) : words \in {SplitWhitespace(Strip(match))}} : TRUE

\* extract_return_values (main.py 204-206)
ExtractReturnValues(body) ==
    CHOOSE r \in {[i \in 1..Len(matches) |-> NormalizeMatch(matches[i])] :
                  matches \in {FindAllReturns(body, 0)}} : TRUE

\* _add_return_type with split("{") in the place of split("{", 1): what follows
\* the second "{" of the header is lost
AddReturnTypeSplitAll(lns, type_text) ==
    IF Contains(lns[1], <<"{">>)
    THEN <<RStrip(SplitOn(lns[1], <<"{">>)[1]) \o Arrow \o type_text
             \o <<" ", "{">> \o SplitOn(lns[1], <<"{">>)[2]>> \o Tail(lns)
    ELSE <<RStrip(lns[1]) \o Arrow \o type_text>> \o Tail(lns)

\* _add_return_type (main.py 208-222); lines is not empty
AddReturnType(lns, type_text) ==
    CHOOSE r \in {IF Contains(func_header, <<"{">>)
                  THEN CHOOSE h \in {<<RStrip(parts[1]) \o Arrow \o type_text
                                       \o <<" ", "{">> \o parts[2]>> \o Tail(lns) :
                                     parts \in {SplitOnce(func_header, <<"{">>)}} : TRUE
                  ELSE <<RStrip(func_header) \o Arrow \o type_text>> \o Tail(lns) :
                  func_header \in {lns[1]}} : TRUE

\* _process_function_lines without the test for an annotation already there
ProcessFunctionLinesNoMarker(lns) ==
    IF lns = <<>> THEN lns
    ELSE CHOOSE r \in {IF inferred_t = None THEN lns
                       ELSE AddReturnType(lns, inferred_t[1]) :
                       inferred_t \in {InferReturnType(
                                          ExtractReturnValues(Join(Newline, lns)))}} : TRUE

\* _process_function_lines (main.py 257-268)
ProcessFunctionLines(lns) ==
    IF lns = <<>> THEN lns
    ELSE CHOOSE r \in {IF inferred_t = None \/ Contains(function_content, Arrow) THEN lns
                       ELSE AddReturnType(lns, inferred_t[1]) :
                       function_content \in {Join(Newline, lns)},
                       inferred_t \in {InferReturnType(
                                          ExtractReturnValues(Join(Newline, lns)))}} : TRUE

\* line.count("{") - line.count("}")
BraceDelta(line) == Count(line, "{") - Count(line, "}")

(***************************************************************************)
(* Inputs.  Every input is put together from a menu of pieces; the number  *)
(* of pieces is bounded.                                                   *)
(***************************************************************************)

MaxLines == 4
MaxBlockLines == 4
MaxAddrPieces == 4
MaxPairChars == 7
MaxReturns == 3
MaxBodyPieces == 5

\* lines of a document
DocLines == {<<"f", "u", "n", "c", "t", "i", "o", "n", " ", "f">>,
             <<"f", "u", "n", "c", "t", "i", "o", "n", " ", "f", " ", "{">>,
             <<"f", "u", "n", "c", "t", "i", "o", "n", " ", "f", " ", "{", " ", "r", "e", "t", "u", "r", "n", " ", "1", ";", " ", "}">>,
             <<"{">>,
             <<"}">>,
             <<"r", "e", "t", "u", "r", "n", " ", "1", ";">>,
             <<"x">>,
             <<>>}

\* lines of a function block
BlockLines == {<<"f", "u", "n", "c", "t", "i", "o", "n", " ", "f">>,
               <<"f", "u", "n", "c", "t", "i", "o", "n", " ", "f", " ", "{">>,
               <<"f", "u", "n", "c", "t", "i", "o", "n", " ", "f", "-", ">", "i", "n", "t", " ", "{">>,
               <<"f", "u", "n", "c", "t", "i", "o", "n", " ", "f", " ", "-", ">", " ", "i", "n", "t">>,
               <<"b", ")", " ", "{">>,
               <<"{">>,
               <<"}">>,
               <<"r", "e", "t", "u", "r", "n", " ", "1", ";">>,
               <<"f", "u", "n", "c", "t", "i", "o", "n", " ", "f", " ", "{", " ", "r", "e", "t", "u", "r", "n", " ", "{", "1", "}", ";", " ", "}">>}

\* pieces of an address or prefix expression
AddrPieces == {<<"1", ".", "2", ".", "3", ".", "4">>,
               <<"f", "e", "8", "0", ":", ":", "1">>,
               <<".", "m", "a", "s", "k", "(">>,
               <<"n", "e", "t">>,
               <<"/">>,
               <<"8">>,
               <<")">>,
               <<".">>,
               <<"x">>}

\* characters of a pair expression
PairChars == {<<"(">>, <<")">>, <<",">>, <<" ">>, <<"1">>}

\* whole return expressions
ReturnValues == {<<"1">>,
                 <<"-", "5">>,
                 <<"t", "r", "u", "e">>,
                 <<"(", "1", ",", " ", "2", ")">>,
                 <<"1", ".", "2", ".", "3", ".", "4">>,
                 <<"1", ".", "2", ".", "3", ".", "4", "/", "2", "4">>,
                 <<"\"", "s", "\"">>,
                 <<"{", "1", "}">>,
                 <<"a", ",", " ", "b">>,
                 <<"x">>}

\* pieces of a function body
BodyPieces == {<<"r", "e", "t", "u", "r", "n">>,
               <<" ">>,
               <<"\n">>,
               <<";">>,
               <<"1">>,
               <<"1", " ", "\n", "1">>,
               <<"r", "e", "t", "u", "r", "n", " ", "1", ";">>}

TypeNameSet == {TypeNames[k] : k \in 1..Len(TypeNames)}
NoVerdict == [t \in TypeNameSet |-> FALSE]

\* the variables as they are before any call
Idle ==
    /\ n_appended = 0
    /\ content = <<>> /\ lines = <<>> /\ idx = 0 /\ in_function = FALSE
    /\ brace_count = 0 /\ function_lines = <<>> /\ processed_lines = <<>>
    /\ run = 0 /\ first_output = <<>> /\ output = <<>>
    /\ value = <<>> /\ verdict = NoVerdict
    /\ return_values = <<>> /\ inferred_type = None
    /\ function_body = <<>> /\ extracted = <<>>
    /\ block_lines = <<>> /\ block_type = <<>> /\ block_result = <<>>

(***************************************************************************)
(* process_content over a document, one action per iteration of its loop;  *)
(* the tool may be run again over the text it returned (process_file,      *)
(* in_place).                                                              *)
(***************************************************************************)

Init == pc = "build" /\ Idle

\* one more line of the document text
AppendLine(l) ==
    /\ pc = "build"
    /\ n_appended < MaxLines
    /\ content' = IF n_appended = 0 THEN l ELSE content \o Newline \o l
    /\ n_appended' = n_appended + 1
    /\ UNCHANGED <<pc, lines, idx, in_function, brace_count, function_lines,
                   processed_lines, run, first_output, output>>
    /\ UNCHANGED <<clsVars, infVars, extVars, blkVars>>

\* process_content is entered with text (main.py 225-229)
Enter(text) ==
    /\ lines' = SplitOn(text, Newline)
    /\ processed_lines' = <<>>
    /\ function_lines' = <<>>
    /\ in_function' = FALSE
    /\ brace_count' = 0
    /\ idx' = 1
    /\ pc' = "scan"

\* the first run, over the document
BeginProcessContent ==
    /\ pc = "build"
    /\ Enter(content)
    /\ run' = 1
    /\ UNCHANGED <<n_appended, content, first_output, output>>
    /\ UNCHANGED <<clsVars, infVars, extVars, blkVars>>

\* the header branch without "and not in_function": a header starts a block anywhere
ScanFunctionStartAnywhere ==
    /\ pc = "scan"
    /\ idx <= Len(lines)
    /\ FunctionStart(lines[idx])
    /\ brace_count' = BraceDelta(lines[idx])
    /\ processed_lines' = processed_lines
    /\ in_function' = TRUE
    /\ function_lines' = <<lines[idx]>>
    /\ idx' = idx + 1
    /\ UNCHANGED <<pc, n_appended, content, lines, run, first_output, output>>
    /\ UNCHANGED <<clsVars, infVars, extVars, blkVars>>

\* a function header outside a function (main.py 232-241)
ScanFunctionStart ==
    /\ pc = "scan"
    /\ idx <= Len(lines)
    /\ FunctionStart(lines[idx]) /\ ~in_function
    /\ LET line == lines[idx]
           count == BraceDelta(line)
       IN  /\ brace_count' = count
           /\ IF count = 0 /\ Contains(line, <<"{">>) /\ Contains(line, <<"}">>)
              THEN /\ processed_lines' = processed_lines \o ProcessFunctionLines(<<line>>)
                   /\ in_function' = FALSE
                   /\ function_lines' = <<>>
              ELSE /\ processed_lines' = processed_lines
                   /\ in_function' = TRUE
                   /\ function_lines' = <<line>>
    /\ idx' = idx + 1
    /\ UNCHANGED <<pc, n_appended, content, lines, run, first_output, output>>
    /\ UNCHANGED <<clsVars, infVars, extVars, blkVars>>

\* a line inside a function (main.py 243-251)
ScanInFunction ==
    /\ pc = "scan"
    /\ idx <= Len(lines)
    /\ ~(FunctionStart(lines[idx]) /\ ~in_function)
    /\ in_function
    /\ LET line == lines[idx]
           collected == Append(function_lines, line)
           count == brace_count + BraceDelta(line)
       IN  /\ brace_count' = count
           /\ IF count = 0
              THEN /\ processed_lines' = processed_lines \o ProcessFunctionLines(collected)
                   /\ in_function' = FALSE
                   /\ function_lines' = <<>>
              ELSE /\ processed_lines' = processed_lines
                   /\ in_function' = TRUE
                   /\ function_lines' = collected
    /\ idx' = idx + 1
    /\ UNCHANGED <<pc, n_appended, content, lines, run, first_output, output>>
    /\ UNCHANGED <<clsVars, infVars, extVars, blkVars>>

\* a line outside any function (main.py 252-253)
ScanPassThrough ==
    /\ pc = "scan"
    /\ idx <= Len(lines)
    /\ ~(FunctionStart(lines[idx]) /\ ~in_function)
    /\ ~in_function
    /\ processed_lines' = Append(processed_lines, lines[idx])
    /\ idx' = idx + 1
    /\ UNCHANGED <<pc, n_appended, content, lines, in_function, brace_count,
                   function_lines, run, first_output, output>>
    /\ UNCHANGED <<clsVars, infVars, extVars, blkVars>>

\* the return with the lines of a still open block flushed to the output
ReturnContentFlushed ==
    /\ pc = "scan"
    /\ idx > Len(lines)
    /\ output' = Join(Newline, processed_lines \o function_lines)
    /\ first_output' = IF run = 1 THEN Join(Newline, processed_lines \o function_lines)
                       ELSE first_output
    /\ pc' = "done"
    /\ UNCHANGED <<n_appended, content, lines, idx, in_function, brace_count,
                   function_lines, processed_lines, run>>
    /\ UNCHANGED <<clsVars, infVars, extVars, blkVars>>

\* the loop is over: return "\n".join(processed_lines) (main.py 255)
ReturnContent ==
    /\ pc = "scan"
    /\ idx > Len(lines)
    /\ output' = Join(Newline, processed_lines)
    /\ first_output' = IF run = 1 THEN Join(Newline, processed_lines) ELSE first_output
    /\ pc' = "done"
    /\ UNCHANGED <<n_appended, content, lines, idx, in_function, brace_count,
                   function_lines, processed_lines, run>>
    /\ UNCHANGED <<clsVars, infVars, extVars, blkVars>>

\* the tool is run again over the text it returned
RunAgain ==
    /\ pc = "done"
    /\ run = 1
    /\ Enter(output)
    /\ run' = 2
    /\ UNCHANGED <<n_appended, content, first_output, output>>
    /\ UNCHANGED <<clsVars, infVars, extVars, blkVars>>

Next ==
    \/ \E l \in DocLines : AppendLine(l)
    \/ BeginProcessContent
    \/ ScanFunctionStart
    \/ ScanInFunction
    \/ ScanPassThrough
    \/ ReturnContent
    \/ RunAgain

Spec == Init /\ [][Next]_vars

\* the locals of process_content before its loop (main.py 226-229)
ScanStart ==
    [in_function |-> FALSE, brace_count |-> 0, function_lines |-> <<>>,
     processed_lines |-> <<>>]

\* one iteration of the loop of process_content over line (main.py 232-253)
ScanStep(st, line) ==
    IF FunctionStart(line) /\ ~st.in_function
    THEN IF BraceDelta(line) = 0 /\ Contains(line, <<"{">>) /\ Contains(line, <<"}">>)
         THEN [in_function |-> FALSE, brace_count |-> 0, function_lines |-> <<>>,
               processed_lines |-> st.processed_lines \o ProcessFunctionLines(<<line>>)]
         ELSE [in_function |-> TRUE, brace_count |-> BraceDelta(line),
               function_lines |-> <<line>>, processed_lines |-> st.processed_lines]
    ELSE IF st.in_function
    THEN IF st.brace_count + BraceDelta(line) = 0
         THEN [in_function |-> FALSE, brace_count |-> 0, function_lines |-> <<>>,
               processed_lines |-> st.processed_lines \o
                                   ProcessFunctionLines(Append(st.function_lines, line))]
         ELSE [in_function |-> TRUE, brace_count |-> st.brace_count + BraceDelta(line),
               function_lines |-> Append(st.function_lines, line),
               processed_lines |-> st.processed_lines]
    ELSE [st EXCEPT !.processed_lines = Append(st.processed_lines, line)]

\* the locals of process_content after its loop has run over lns (main.py 231-253)
RECURSIVE ScanLines(_)
ScanLines(lns) ==
    IF lns = <<>> THEN ScanStart
    ELSE ScanStep(ScanLines(SubSeq(lns, 1, Len(lns) - 1)), lns[Len(lns)])

(***************************************************************************)
(* The classifiers of TYPE_PATTERNS over one return expression             *)
(***************************************************************************)

InitClassify == pc = "build" /\ Idle

\* one more piece of the expression
AppendPiece(p, max) ==
    /\ pc = "build"
    /\ n_appended < max
    /\ value' = value \o p
    /\ n_appended' = n_appended + 1
    /\ UNCHANGED <<pc, verdict, docVars, infVars, extVars, blkVars>>

\* every checker of TYPE_PATTERNS is applied to the expression (main.py 98-106)
Classify ==
    /\ pc = "build"
    /\ verdict' = [t \in TypeNameSet |-> Checker(t, value)]
    /\ pc' = "classified"
    /\ UNCHANGED <<n_appended, value, docVars, infVars, extVars, blkVars>>

NextAddr ==
    \/ \E p \in AddrPieces : AppendPiece(p, MaxAddrPieces)
    \/ Classify

SpecAddr == InitClassify /\ [][NextAddr]_vars

NextPair ==
    \/ \E p \in PairChars : AppendPiece(p, MaxPairChars)
    \/ Classify

SpecPair == InitClassify /\ [][NextPair]_vars

(***************************************************************************)
(* infer_return_type over a list of return expressions                     *)
(***************************************************************************)

InitInfer == pc = "build" /\ Idle

\* one more return expression
AppendReturnValue(v) ==
    /\ pc = "build"
    /\ n_appended < MaxReturns
    /\ return_values' = Append(return_values, v)
    /\ n_appended' = n_appended + 1
    /\ UNCHANGED <<pc, inferred_type, docVars, clsVars, extVars, blkVars>>

\* infer_return_type(return_values) (main.py 164-172)
Infer ==
    /\ pc = "build"
    /\ inferred_type' = InferReturnType(return_values)
    /\ pc' = "inferred"
    /\ UNCHANGED <<n_appended, return_values, docVars, clsVars, extVars, blkVars>>

NextInfer ==
    \/ \E v \in ReturnValues : AppendReturnValue(v)
    \/ Infer

SpecInfer == InitInfer /\ [][NextInfer]_vars

(***************************************************************************)
(* extract_return_values over the text of a function                       *)
(***************************************************************************)

InitExtract == pc = "build" /\ Idle

\* one more piece of the text
AppendBodyPiece(p) ==
    /\ pc = "build"
    /\ n_appended < MaxBodyPieces
    /\ function_body' = function_body \o p
    /\ n_appended' = n_appended + 1
    /\ UNCHANGED <<pc, extracted, docVars, clsVars, infVars, blkVars>>

\* extract_return_values(function_body) (main.py 204-206)
Extract ==
    /\ pc = "build"
    /\ extracted' = ExtractReturnValues(function_body)
    /\ pc' = "extracted"
    /\ UNCHANGED <<n_appended, function_body, docVars, clsVars, infVars, blkVars>>

NextExtract ==
    \/ \E p \in BodyPieces : AppendBodyPiece(p)
    \/ Extract

SpecExtract == InitExtract /\ [][NextExtract]_vars

(***************************************************************************)
(* _process_function_lines and _add_return_type over one function block    *)
(***************************************************************************)

InitBlock == pc = "build" /\ Idle

\* one more line of the block
AppendBlockLine(l) ==
    /\ pc = "build"
    /\ n_appended < MaxBlockLines
    /\ block_lines' = Append(block_lines, l)
    /\ n_appended' = n_appended + 1
    /\ UNCHANGED <<pc, block_type, block_result, docVars, clsVars, infVars, extVars>>

\* _process_function_lines(block_lines), as process_single_function calls it
\* (main.py 257-268)
ProcessBlock ==
    /\ pc = "build"
    /\ block_result' = ProcessFunctionLines(block_lines)
    /\ pc' = "processed"
    /\ UNCHANGED <<n_appended, block_lines, block_type, docVars, clsVars, infVars, extVars>>

\* _add_return_type(block_lines, the text of type t) (main.py 208-222)
AnnotateBlock(t) ==
    /\ pc = "build"
    /\ block_lines # <<>>
    /\ block_type' = TypeText(t)
    /\ block_result' = AddReturnType(block_lines, TypeText(t))
    /\ pc' = "annotated"
    /\ UNCHANGED <<n_appended, block_lines, docVars, clsVars, infVars, extVars>>

NextBlock ==
    \/ \E l \in BlockLines : AppendBlockLine(l)
    \/ ProcessBlock
    \/ \E t \in TypeNameSet : AnnotateBlock(t)

SpecBlock == InitBlock /\ [][NextBlock]_vars

(***************************************************************************)
(* Properties                                                              *)
(***************************************************************************)

\* the lines of a text
LinesOf(text) == SplitOn(text, Newline)

\* C1: idempotence of process_content: a second run over the text the first
\* run returned returns that text unchanged.
C1_Idempotent == (pc = "done" /\ run = 2) => output = first_output

\* a second run has ended over a text in which the first run annotated a function
C1_Witness ==
    /\ pc = "done" /\ run = 2
    /\ first_output # content
    /\ Contains(first_output, Arrow)

\* line `out` is line `inp` or, for a function header, `inp` with an annotation
SameOrAnnotated(inp, out) ==
    \/ out = inp
    \/ /\ FunctionStart(inp)
       /\ \E t \in TypeNameSet : <<out>> = AddReturnType(<<inp>>, TypeText(t))

\* C2: process_content returns as many lines as it was given, in the same order,
\* each identical to the input line except an annotated function header; no
\* line is dropped, duplicated or reordered.
C2_LinesKept ==
    (pc = "done" /\ run = 1) =>
        /\ Len(LinesOf(output)) = Len(LinesOf(content))
        /\ \A i \in 1..Len(LinesOf(content)) :
              i <= Len(LinesOf(output)) /\ SameOrAnnotated(LinesOf(content)[i], LinesOf(output)[i])

\* the text of the block handed to _process_function_lines / _add_return_type
BlockText == Join(Newline, block_lines)
ResultText == Join(Newline, block_result)

\* block_lines is a function block: it starts with a function header
IsFunctionBlock == block_lines # <<>> /\ FunctionStart(block_lines[1])

\* C3: a function block whose text contains the marker "->" is returned
\* unchanged by _process_function_lines, whatever it returns.
C3_AlreadyTypedKept ==
    (pc = "processed" /\ IsFunctionBlock /\ Contains(BlockText, <<"-", ">">>)) =>
        block_result = block_lines

\* the text holds a return statement: the keyword with a ";" somewhere after it
HasReturnStatement(text) ==
    \E i \in 1..Len(text) :
        /\ OccursAt(text, KwReturn, i)
        /\ \E j \in (i + Len(KwReturn))..Len(text) : text[j] = ";"

\* C4: a block with no return statement is returned unchanged by
\* _process_function_lines, and no "->" is added to it.
C4_VoidKept ==
    (pc = "processed" /\ IsFunctionBlock /\ ~HasReturnStatement(BlockText)) =>
        /\ block_result = block_lines
        /\ Contains(ResultText, <<"-", ">">>) = Contains(BlockText, <<"-", ">">>)

\* a function with a header, a body in braces and no return statement was processed
C4_Witness ==
    /\ pc = "processed"
    /\ ~HasReturnStatement(BlockText)
    /\ IsFunctionBlock
    /\ Len(block_lines) >= 3
    /\ Contains(BlockText, <<"{">>) /\ Contains(BlockText, <<"}">>)
    /\ ~Contains(BlockText, <<"-", ">">>)

\* text ends with sub
EndsWith(text, sub) == OccursAt(text, sub, Len(text) - Len(sub) + 1)

\* C7: for a function block with an opening brace, _add_return_type puts
\* "-> <type>" immediately before the first "{" of the block, with only
\* whitespace or line breaks between them, on whichever line that brace is.
C7_AnnotationBeforeBrace ==
    (pc = "annotated" /\ IsFunctionBlock /\ Contains(BlockText, <<"{">>)) =>
        /\ Contains(ResultText, <<"{">>)
        /\ EndsWith(RStrip(Slice(ResultText, 1, Find(ResultText, <<"{">>) - 1)),
                    <<"-", ">", " ">> \o block_type)

(***************************************************************************)
(* Properties of the inferencer                                            *)
(***************************************************************************)

\* the checker of type t holds for every expression of return_values
Unanimous(t) == \A i \in 1..Len(return_values) : Checker(t, return_values[i])

\* C5: infer_return_type returns None exactly for the empty list; otherwise the
\* first type, in the order int, pair, ip, prefix, string, set, bool, whose
\* checker holds for every expression, and bool when none does; the result is
\* one of the seven declared types; ["1", "true"] gives bool, ["1"] gives int.
C5_FirstUnanimousType ==
    pc = "inferred" =>
        /\ (inferred_type = None) <=> (return_values = <<>>)
        /\ return_values # <<>> =>
              /\ inferred_type \in {Some(TypeText(t)) : t \in TypeNameSet}
              /\ \A k \in 1..6 :
                    (inferred_type = Some(TypeText(TypeNames[k]))) <=>
                        /\ Unanimous(TypeNames[k])
                        /\ \A j \in 1..(k - 1) : ~Unanimous(TypeNames[j])
              /\ (inferred_type = Some(TypeText("bool"))) <=>
                    \A j \in 1..6 : ~Unanimous(TypeNames[j])
        /\ return_values = <<<<"1">>, <<"t", "r", "u", "e">>>> =>
              inferred_type = Some(<<"b", "o", "o", "l">>)
        /\ return_values = <<<<"1">>>> => inferred_type = Some(<<"i", "n", "t">>)
        /\ return_values = <<<<"(", "1", ",", " ", "2", ")">>>> =>
              inferred_type = Some(<<"p", "a", "i", "r", " ", "(", "i", "n", "t", ",", " ", "i", "n", "t", ")">>)

\* the type of a list whose first expression is an int and whose second is not
\* was inferred
C5_Witness ==
    /\ pc = "inferred"
    /\ Len(return_values) >= 2
    /\ Checker("int", return_values[1])
    /\ ~Checker("int", return_values[2])
    /\ inferred_type = Some(TypeText("bool"))

\* the lists that hold the elements of vals in another order
PermutationsOf(vals) ==
    {[i \in 1..Len(vals) |-> vals[p[i]]] :
        p \in {q \in [1..Len(vals) -> 1..Len(vals)] :
                 \A a, b \in 1..Len(vals) : q[a] = q[b] => a = b}}

\* vals without the repetitions of an earlier element
RECURSIVE WithoutDuplicates(_)
WithoutDuplicates(vals) ==
    IF vals = <<>> THEN <<>>
    ELSE LET front == WithoutDuplicates(SubSeq(vals, 1, Len(vals) - 1))
             last == vals[Len(vals)]
         IN  IF \E i \in 1..(Len(vals) - 1) : vals[i] = last THEN front
             ELSE Append(front, last)

\* C10: infer_return_type gives the same result for every permutation of the
\* list, and for the list with its duplicates removed.
C10_OrderIndependent ==
    pc = "inferred" =>
        /\ \A perm \in PermutationsOf(return_values) : InferReturnType(perm) = inferred_type
        /\ InferReturnType(WithoutDuplicates(return_values)) = inferred_type

\* the type of a list of three expressions, two of them equal and the first of
\* another type than the last, was inferred
C10_Witness ==
    /\ pc = "inferred"
    /\ Len(return_values) = 3
    /\ return_values[1] = return_values[2]
    /\ InferReturnType(<<return_values[1]>>) # InferReturnType(<<return_values[3]>>)

\* the part of v before its first ".mask("
BaseBeforeMask(v) == Slice(v, 1, Find(v, DotMaskParen) - 1)
IsNetBase(base) == base = Net \/ StartsWith(base, NetDot)

\* C6 as stated: ip and prefix exclude each other; an expression with ".mask("
\* is ip when the part before it is a valid IP address, and prefix only when
\* that part is no valid IP address and is "net" or starts with "net."; an
\* expression with "/" is never ip.
C6_AsStated ==
    pc = "classified" =>
        /\ ~(verdict["ip"] /\ verdict["prefix"])
        /\ Contains(value, DotMaskParen) =>
              /\ IpAddressOk(BaseBeforeMask(value)) => verdict["ip"]
              /\ verdict["prefix"] =>
                    ~IpAddressOk(BaseBeforeMask(value)) /\ IsNetBase(BaseBeforeMask(value))
        /\ Contains(value, <<"/">>) => ~verdict["ip"]

\* C6, amended: ip and prefix exclude each other; an expression with ".mask("
\* and without "/" is ip exactly when the part before the first ".mask(" is a
\* valid IP address, and prefix exactly when that part is no valid IP address
\* and is "net" or starts with "net."; an expression with "/" is never ip.
C6_MaskTieBreak ==
    pc = "classified" =>
        /\ ~(verdict["ip"] /\ verdict["prefix"])
        /\ (Contains(value, DotMaskParen) /\ ~Contains(value, <<"/">>)) =>
              /\ verdict["ip"] <=> IpAddressOk(BaseBeforeMask(value))
              /\ verdict["prefix"] <=>
                    ~IpAddressOk(BaseBeforeMask(value)) /\ IsNetBase(BaseBeforeMask(value))
        /\ Contains(value, <<"/">>) => ~verdict["ip"]

\* a masked IP address, such as 1.2.3.4.mask(8), was classified ip
C6_Witness ==
    /\ pc = "classified"
    /\ Contains(value, DotMaskParen) /\ ~Contains(value, <<"/">>)
    /\ EndsWith(value, <<")">>)
    /\ verdict["ip"]

\* t has the shape (A,B): "(" first, ")" last, and a comma between components A
\* and B that are not empty and hold no character of banned
HasPairShape(t, banned) ==
    /\ Len(t) >= 2
    /\ t[1] = "(" /\ t[Len(t)] = ")"
    /\ \E c \in 2..(Len(t) - 1) :
          /\ t[c] = ","
          /\ c > 2 /\ c < Len(t) - 1
          /\ \A i \in (2..(Len(t) - 1)) \ {c} : t[i] \notin banned

\* what the examples of the claim come to over the characters "(", ")", ",", " ", "1"
PairExamples ==
    /\ value = <<"(", "1", ",", "1", ",", "1", ")">> =>
          ~verdict["pair"] /\ InferReturnType(<<value>>) = Some(TypeText("bool"))
    /\ value = <<"(", "1", ")">> => ~verdict["pair"]
    /\ value = <<"1", ",", " ", "1">> => ~verdict["pair"]
    /\ value = <<"(", "1", ",", " ", "1", ")">> =>
          verdict["pair"] /\ InferReturnType(<<value>>) = Some(TypeText("pair"))

\* C8: the pair checker holds exactly for a trimmed string (A, B) with A and B
\* not empty and without comma and without parenthesis; (1, 2, 3), (1) and
\* 1, 2 are no pairs and ["(1, 2, 3)"] infers bool.
C8_PairShape ==
    pc = "classified" =>
        /\ verdict["pair"] <=> HasPairShape(Strip(value), {",", "(", ")"})
        /\ PairExamples

(***************************************************************************)
(* Properties of extract_return_values                                     *)
(***************************************************************************)

\* the index of the first ";" of s at or after index k, 0 when there is none
NextSemicolon(s, k) ==
    IF \E j \in k..Len(s) : s[j] = ";"
    THEN Minimum({j \in k..Len(s) : s[j] = ";"})
    ELSE 0

\* at index i of s stand "return", whitespace, one or more characters other
\* than ";" and then the first following ";"
IsReturnOccurrence(s, i) ==
    /\ OccursAt(s, KwReturn, i)
    /\ i + Len(KwReturn) <= Len(s)
    /\ s[i + Len(KwReturn)] \in Whitespace
    /\ NextSemicolon(s, i + Len(KwReturn)) >= i + Len(KwReturn) + 2

ReturnOccurrences(s) == {i \in 1..Len(s) : IsReturnOccurrence(s, i)}

\* the ";" that end an occurrence; a "return" inside the expression of an
\* earlier occurrence ends at the same ";" and is part of that expression
ReturnEnds(s) == {NextSemicolon(s, i + Len(KwReturn)) : i \in ReturnOccurrences(s)}
KthEnd(s, k) == CHOOSE j \in ReturnEnds(s) : Cardinality({x \in ReturnEnds(s) : x < j}) = k - 1
FirstOccurrenceEndingAt(s, j) ==
    Minimum({i \in ReturnOccurrences(s) : NextSemicolon(s, i + Len(KwReturn)) = j})

\* seg with every run of whitespace turned into one space, and none at its ends
RECURSIVE Collapsed(_, _, _)
Collapsed(seg, i, out) ==
    IF i > Len(seg) THEN out
    ELSE IF seg[i] \in Whitespace THEN Collapsed(seg, i + 1, out)
    ELSE IF out # <<>> /\ seg[i - 1] \in Whitespace
         THEN Collapsed(seg, i + 1, out \o <<" ", seg[i]>>)
         ELSE Collapsed(seg, i + 1, Append(out, seg[i]))

\* e has no whitespace but single spaces between other characters
IsNormalized(e) ==
    \A i \in 1..Len(e) :
        e[i] \in Whitespace =>
            e[i] = " " /\ i > 1 /\ i < Len(e) /\ e[i + 1] \notin Whitespace

\* C9: extract_return_values returns, in order of appearance, one expression
\* for each occurrence of "return", whitespace, one or more characters other
\* than ";" and the first following ";" (occurrences counted from the left, a
\* "return" inside an expression being part of it); each expression has its
\* runs of whitespace collapsed to one space and none at its ends; a "return"
\* with no ";" after it yields nothing.
C9_ExtractedInOrder ==
    pc = "extracted" =>
        /\ Len(extracted) = Cardinality(ReturnEnds(function_body))
        /\ \A k \in 1..Len(extracted) :
              /\ extracted[k] =
                    Collapsed(Slice(function_body,
                                    FirstOccurrenceEndingAt(function_body,
                                        KthEnd(function_body, k)) + Len(KwReturn),
                                    KthEnd(function_body, k) - 1), 1, <<>>)
              /\ IsNormalized(extracted[k])
        /\ ~Contains(function_body, <<";">>) => extracted = <<>>
        /\ ReturnOccurrences(function_body) = {} => extracted = <<>>

\* two return statements, the second with its expression over two lines, gave
\* two expressions
C9_Witness ==
    /\ pc = "extracted"
    /\ Len(extracted) = 2
    /\ extracted[1] # extracted[2]
    /\ Contains(function_body, Newline)
    /\ Contains(extracted[2], Space)
    /\ ~Contains(function_body, extracted[2])

(***************************************************************************)
(* Properties of the scanner of process_content                            *)
(***************************************************************************)

\* the sum of the brace counts of the lines of lns
RECURSIVE DepthOf(_)
DepthOf(lns) ==
    IF lns = <<>> THEN 0
    ELSE DepthOf(SubSeq(lns, 1, Len(lns) - 1)) + BraceDelta(lns[Len(lns)])

\* this step of the scanner reads a line and closes a function block with it
ClosesBlock ==
    /\ pc = "scan" /\ idx <= Len(lines) /\ idx' = idx + 1
    /\ ~in_function'
    /\ in_function \/ FunctionStart(lines[idx])

\* the block that such a step closes
ClosedBlock == IF in_function THEN Append(function_lines, lines[idx]) ELSE <<lines[idx]>>

\* C11: every block the scanner closes starts with a function header, has its
\* opening brace in it and balanced braces, and no earlier line of it brought
\* the depth back to zero after the opening brace; it is never closed before
\* its opening "{" was read.
C11_ClosedAtBalancedBrace ==
    [][ClosesBlock =>
          /\ FunctionStart(ClosedBlock[1])
          /\ Contains(Join(Newline, ClosedBlock), <<"{">>)
          /\ DepthOf(ClosedBlock) = 0
          /\ \A k \in 1..(Len(ClosedBlock) - 1) :
                Contains(Join(Newline, SubSeq(ClosedBlock, 1, k)), <<"{">>) =>
                    DepthOf(SubSeq(ClosedBlock, 1, k)) # 0]_vars

\* the scanner is outside any function, or inside one block that starts with a
\* function header and whose depth is the sum of the brace counts of its lines
OutsideOrInside ==
    /\ in_function \in BOOLEAN
    /\ ~in_function => function_lines = <<>> /\ brace_count = 0
    /\ in_function =>
          /\ function_lines # <<>>
          /\ FunctionStart(function_lines[1])
          /\ brace_count = DepthOf(function_lines)

\* this step of the scanner reads a line while a function block is open
ScansInsideBlock == pc = "scan" /\ in_function /\ idx <= Len(lines) /\ idx' = idx + 1

\* the line read is appended to the open block and changes the depth only; at a
\* depth other than zero the block stays open, at depth zero the block is
\* emitted with all lines but the first as they were
AbsorbedByOpenBlock ==
    LET block == Append(function_lines, lines[idx])
        depth == brace_count + BraceDelta(lines[idx])
        before == Len(processed_lines)
    IN  /\ brace_count' = depth
        /\ depth # 0 =>
              /\ in_function' /\ function_lines' = block
              /\ processed_lines' = processed_lines
        /\ depth = 0 =>
              /\ ~in_function' /\ function_lines' = <<>>
              /\ Len(processed_lines') = before + Len(block)
              /\ SubSeq(processed_lines', 1, before) = processed_lines
              /\ SameOrAnnotated(block[1], processed_lines'[before + 1])
              /\ \A i \in 2..Len(block) : processed_lines'[before + i] = block[i]

\* C12: inside an open function block a line that matches the function pattern
\* starts no new block and nested braces open or close no block: the line is
\* appended to the open block and changes the depth counter only; the scanner is
\* always either outside a function or inside one block with a depth, and of a
\* closed block at most the first line is rewritten.
C12_OneOpenBlock == []OutsideOrInside /\ [][ScansInsideBlock => AbsorbedByOpenBlock]_vars

\* a second function header and its brace were absorbed by an open block
C12_Witness ==
    /\ pc = "scan"
    /\ in_function
    /\ Len(function_lines) >= 2
    /\ FunctionStart(function_lines[2])
    /\ brace_count = 2

\* the lines before the header of the block that is open at the end
LinesBeforeOpenBlock == SubSeq(lines, 1, Len(lines) - Len(function_lines))

\* C13: when the document ends inside a function block, no line from the header
\* of that block to the end of the document is in the output: the output is the
\* processed result of the lines before that header.
C13_OpenBlockDropped ==
    (pc = "done" /\ in_function) =>
        /\ run = 1 => lines = LinesOf(content)
        /\ function_lines = SubSeq(lines, Len(LinesBeforeOpenBlock) + 1, Len(lines))
        /\ ~ScanLines(LinesBeforeOpenBlock).in_function
        /\ Len(ScanLines(LinesBeforeOpenBlock).processed_lines) = Len(LinesBeforeOpenBlock)
        /\ output = Join(Newline, ScanLines(LinesBeforeOpenBlock).processed_lines)

\* a document with an annotated function and then a block left open was processed
C13_Witness ==
    /\ pc = "done" /\ run = 1
    /\ in_function
    /\ Len(function_lines) >= 2
    /\ Contains(output, Arrow)
    /\ Len(LinesOf(output)) < Len(LinesOf(content))

\* the scan as a whole gives what the loop over all lines gives
ScanAgrees == pc = "done" => output = Join(Newline, ScanLines(lines).processed_lines)

(***************************************************************************)
(* Properties of _add_return_type, continued                               *)
(***************************************************************************)

\* the text of line after its first "{"
AfterFirstBrace(line) == Slice(line, Find(line, <<"{">>) + 1, Len(line))

\* C14: _add_return_type changes the first line only: the result has as many
\* lines as the block, every line after the first is the input line, the text
\* after the first "{" of the header line is kept, and the header line has as
\* many "{" and as many "}" as before, so the depth of the block is unchanged.
C14_OnlyHeaderChanged ==
    pc = "annotated" =>
        /\ Len(block_result) = Len(block_lines)
        /\ \A i \in 2..Len(block_lines) : block_result[i] = block_lines[i]
        /\ Contains(block_lines[1], <<"{">>) =>
              AfterFirstBrace(block_result[1]) = AfterFirstBrace(block_lines[1])
        /\ Count(block_result[1], "{") = Count(block_lines[1], "{")
        /\ Count(block_result[1], "}") = Count(block_lines[1], "}")
        /\ DepthOf(block_result) = DepthOf(block_lines)

\* a block was annotated whose header holds two opening braces and whose later
\* lines hold a brace
C14_Witness ==
    /\ pc = "annotated"
    /\ Count(block_lines[1], "{") = 2
    /\ Len(block_lines) >= 2
    /\ Contains(block_lines[2], <<"}">>)
    /\ block_result # block_lines

(***************************************************************************)
(* Properties of extract_return_values, continued                          *)
(***************************************************************************)

\* C15: no expression that extract_return_values returns is the empty string:
\* a "return" followed by whitespace only and ";" yields no expression.
C15_NoEmptyExpression ==
    pc = "extracted" => \A k \in 1..Len(extracted) : extracted[k] # <<>>

====
